---- MODULE Spec2Model ----
(***************************************************************************)
(* Model of migrationSafetyAnalyzer/main.py: the DDLAnalyzer class.  A      *)
(* script is a string; the splitter, the three AST builders and the three   *)
(* fold functions are operators over strings and records, and parse_ddl is  *)
(* the one operation of the analyzer object.                               *)
(***************************************************************************)
EXTENDS Integers, Sequences, FiniteSets, TLC

(***************************************************************************)
(* Strings.  TLC gives Len, \o, Head, Tail and SubSeq on strings; a         *)
(* character is a string of length one.                                    *)
(***************************************************************************)

\* s[i:] of Python, with i counted from 1.
Drop(s, n) == IF n >= Len(s) THEN "" ELSE SubSeq(s, n + 1, Len(s))

\* s[:n] of Python.
Take(s, n) == IF n <= 0 THEN "" ELSE IF n >= Len(s) THEN s ELSE SubSeq(s, 1, n)

\* p occurs in s at position i (1-based).
At(s, i, p) == i >= 1 /\ i + Len(p) - 1 <= Len(s) /\ SubSeq(s, i, i + Len(p) - 1) = p

\* str.startswith
startswith(s, p) == At(s, 1, p)

\* Least element of a non-empty set of integers, and the greatest.
Min(S) == CHOOSE i \in S : \A j \in S : i <= j

Max(S) == CHOOSE i \in S : \A j \in S : i >= j

\* First position >= i at which p occurs in s; 0 when there is none.
FindFrom(s, p, i) ==
    LET I == {k \in i..(Len(s) - Len(p) + 1) : At(s, k, p)}
    IN IF I = {} THEN 0 ELSE Min(I)

\* str.find, 1-based; 0 when p does not occur in s.
Find(s, p) == FindFrom(s, p, 1)

\* The Python test `p in s`.
Contains(s, p) == Find(s, p) # 0

\* The whitespace of str.strip(), str.split() and the regex class \s.
Whitespace == {" ", "\t", "\n", "\r", "\f"}

LowerCase == "abcdefghijklmnopqrstuvwxyz"
UpperCase == "ABCDEFGHIJKLMNOPQRSTUVWXYZ"
Digits == "0123456789"

CharsOf(s) == {SubSeq(s, i, i) : i \in 1..Len(s)}

\* The regex class \w.
WordChars == CharsOf(LowerCase) \cup CharsOf(UpperCase) \cup CharsOf(Digits) \cup {"_"}

UpperOf(c) ==
    IF c \in CharsOf(LowerCase)
    THEN LET i == CHOOSE k \in 1..Len(LowerCase) : SubSeq(LowerCase, k, k) = c
         IN SubSeq(UpperCase, i, i)
    ELSE c

\* str.upper
RECURSIVE upper(_)
upper(s) ==
    IF Len(s) = 0 THEN ""
    ELSE IF Len(s) = 1 THEN UpperOf(s)
    ELSE upper(Take(s, Len(s) \div 2)) \o upper(Drop(s, Len(s) \div 2))

\* First index >= i of s that holds no character of the class cs (Len(s)+1 if none).
SkipClass(s, i, cs) ==
    Min({k \in i..Len(s) : SubSeq(s, k, k) \notin cs} \cup {Len(s) + 1})

\* Last index <= i of s that holds no whitespace (0 if none).
SkipBack(s, i) ==
    Max({k \in 1..i : SubSeq(s, k, k) \notin Whitespace} \cup {0})

\* str.strip
strip(s) ==
    LET a == SkipClass(s, 1, Whitespace)
        b == SkipBack(s, Len(s))
    IN IF a > b THEN "" ELSE SubSeq(s, a, b)

\* str.split(sep) for a non-empty separator: the pieces, empty ones included.
RECURSIVE split(_, _)
split(s, sep) ==
    LET i == Find(s, sep)
    IN IF i = 0 THEN <<s>>
       ELSE <<Take(s, i - 1)>> \o split(Drop(s, i + Len(sep) - 1), sep)

\* First index >= i of s that holds whitespace (Len(s)+1 if none).
SkipToken(s, i) ==
    Min({k \in i..Len(s) : SubSeq(s, k, k) \in Whitespace} \cup {Len(s) + 1})

\* str.split(None, maxsplit): whitespace-separated tokens; after maxsplit
\* splits the rest of the string, leading whitespace removed, is the last
\* piece.  maxsplit = -1 is str.split().
RECURSIVE split_ws(_, _)
split_ws(s, maxsplit) ==
    LET a == SkipClass(s, 1, Whitespace)
        b == SkipToken(s, a)
    IN IF a > Len(s) THEN <<>>
       ELSE IF maxsplit = 0 THEN <<Drop(s, a - 1)>>
       ELSE <<SubSeq(s, a, b - 1)>> \o split_ws(Drop(s, b - 1), maxsplit - 1)


(***************************************************************************)
(* The regular expressions of the analyzer, each as the search it does.    *)
(***************************************************************************)

NoMatch == [ok |-> FALSE, group |-> "", end |-> 0]

\* The pattern K1\s+K2\s+(\w+) with re.IGNORECASE, tried at position i of s
\* (u is upper(s)): the keywords, each followed by one or more whitespace
\* characters, then the longest run of word characters.  end is the position
\* after the match.
KwMatchAt(s, u, i, k1, k2) ==
    LET a == i + Len(k1)
        b == SkipClass(u, a, Whitespace)
        c == b + Len(k2)
        d == SkipClass(u, c, Whitespace)
        e == SkipClass(s, d, WordChars)
    IN IF At(u, i, k1) /\ b > a /\ At(u, b, k2) /\ d > c /\ e > d
       THEN [ok |-> TRUE, group |-> SubSeq(s, d, e - 1), end |-> e]
       ELSE NoMatch

\* re.search(r"K1\s+K2\s+(\w+)", s, re.IGNORECASE): the leftmost match.
re_search_kw(s, k1, k2) ==
    LET u == upper(s)
        I == {i \in 1..Len(s) : KwMatchAt(s, u, i, k1, k2).ok}
    IN IF I = {} THEN NoMatch ELSE KwMatchAt(s, u, Min(I), k1, k2)

\* Last position of character c in s, 0 if none.
RFind(s, c) == Max({k \in 1..Len(s) : SubSeq(s, k, k) = c} \cup {0})

\* re.search(r"\((.*)\)", s, re.DOTALL): greedy, from the first "(" to the
\* last ")" of s.
re_search_body(s) ==
    LET i == Find(s, "(")
        j == RFind(s, ")")
    IN IF i # 0 /\ j > i
       THEN [ok |-> TRUE, group |-> IF j = i + 1 THEN "" ELSE SubSeq(s, i + 1, j - 1), end |-> j + 1]
       ELSE NoMatch

\* re.findall(r"\(([^)]+)\)", s), first element: the leftmost "(" that is
\* followed by at least one character other than ")" and then by ")".
re_findall_parens(s) ==
    LET closer(i) == FindFrom(s, ")", i + 1)
        I == {i \in 1..Len(s) : SubSeq(s, i, i) = "(" /\ closer(i) > i + 1}
    IN IF I = {} THEN NoMatch
       ELSE [ok |-> TRUE, group |-> SubSeq(s, Min(I) + 1, closer(Min(I)) - 1),
             end |-> closer(Min(I)) + 1]

(***************************************************************************)
(* _split_statements                                                       *)
(***************************************************************************)

\* re.sub(r"--.*$", "", ddl, flags=re.MULTILINE): from each "--" to the end
\* of its line; the newline stays.
RECURSIVE sub_line_comments(_)
sub_line_comments(ddl) ==
    LET i == Find(ddl, "--")
        n == FindFrom(ddl, "\n", i)
    IN IF i = 0 THEN ddl
       ELSE IF n = 0 THEN Take(ddl, i - 1)
       ELSE Take(ddl, i - 1) \o sub_line_comments(Drop(ddl, n - 1))

\* re.sub(r"/\*.*?\*/", "", ddl_clean, flags=re.DOTALL): from each "/*" to
\* the nearest "*/" that starts after it.  A "/*" with no "*/" after it is no
\* match and stays in the text (and then no later "/*" has one either).
RECURSIVE sub_block_comments(_)
sub_block_comments(ddl) ==
    LET i == Find(ddl, "/*")
        close == FindFrom(ddl, "*/", i + 2)
    IN IF i = 0 \/ close = 0 THEN ddl
       ELSE Take(ddl, i - 1) \o sub_block_comments(Drop(ddl, close + 1))

\* [stmt.strip() for stmt in pieces if stmt.strip()]
RECURSIVE StripNonEmpty(_)
StripNonEmpty(pieces) ==
    IF Len(pieces) = 0 THEN <<>>
    ELSE LET stmt == strip(Head(pieces))
         IN (IF Len(stmt) = 0 THEN <<>> ELSE <<stmt>>) \o StripNonEmpty(Tail(pieces))

\* The text without its comments: line comments go first.
ddl_clean(ddl) == sub_block_comments(sub_line_comments(ddl))

split_statements(ddl) == StripNonEmpty(split(ddl_clean(ddl), ";"))

(***************************************************************************)
(* AST nodes.  A builder returns a node, None, or raises: a raise is the    *)
(* value Raise(exception class).                                           *)
(***************************************************************************)

None == [kind |-> "None"]

Raise(exc) == [kind |-> "Raise", exc |-> exc]

ColumnDef(name, col_type, nullable, is_primary_key) ==
    [name |-> name, col_type |-> col_type, nullable |-> nullable,
     default |-> "None", is_primary_key |-> is_primary_key]

CreateTable(table_name, columns, table_primary_key, raw_sql) ==
    [kind |-> "CreateTable", table_name |-> table_name, columns |-> columns,
     table_primary_key |-> table_primary_key, raw_sql |-> raw_sql]

DropColumn(column_name) == [kind |-> "DropColumn", column_name |-> column_name]

AddColumn(column) == [kind |-> "AddColumn", column |-> column]

SetNotNull(column_name) == [kind |-> "SetNotNull", column_name |-> column_name]

AlterTable(table_name, actions, raw_sql) ==
    [kind |-> "AlterTable", table_name |-> table_name, actions |-> actions,
     raw_sql |-> raw_sql]

DropTable(table_name, raw_sql) ==
    [kind |-> "DropTable", table_name |-> table_name, raw_sql |-> raw_sql]

\* [p.strip() for p in pieces]
StripEach(pieces) == [k \in 1..Len(pieces) |-> strip(pieces[k])]

(***************************************************************************)
(* _build_create_table_ast                                                 *)
(***************************************************************************)

\* The loop over the parts of the body: acc is [columns, table_pk].
RECURSIVE create_parts(_, _)
create_parts(parts, acc) ==
    IF Len(parts) = 0 THEN acc
    ELSE LET part == Head(parts)
             up == upper(part)
             pk_cols == re_findall_parens(part)
             tokens == split_ws(part, -1)
         IN IF startswith(up, "PRIMARY KEY")
            THEN create_parts(Tail(parts),
                     [acc EXCEPT !.table_pk =
                         IF pk_cols.ok THEN @ \o StripEach(split(pk_cols.group, ",")) ELSE @])
            ELSE IF Len(tokens) < 2
            THEN create_parts(Tail(parts), acc)
            ELSE create_parts(Tail(parts),
                     [acc EXCEPT !.columns =
                         Append(@, ColumnDef(tokens[1], tokens[2],
                                             ~Contains(up, "NOT NULL"),
                                             Contains(up, "PRIMARY KEY")))])

build_create_table_ast(statement) ==
    LET table_match == re_search_kw(statement, "CREATE", "TABLE")
        m_body == re_search_body(statement)
        parts == IF m_body.ok THEN StripEach(split(m_body.group, ",")) ELSE <<>>
        built == create_parts(parts, [columns |-> <<>>, table_pk |-> <<>>])
    IN IF ~table_match.ok THEN None
       ELSE CreateTable(table_match.group, built.columns, built.table_pk, statement)

(***************************************************************************)
(* _build_alter_table_ast                                                  *)
(***************************************************************************)

\* One action clause: exc names the exception raised ("None" if none) and
\* actions holds the action built, if the clause is one of the three.
alter_action(act) ==
    LET up == upper(act)
        m_drop == re_search_kw(act, "DROP", "COLUMN")
        pieces == split_ws(act, 2)
        tokens == split_ws(pieces[3], -1)
        m_col == re_search_kw(act, "ALTER", "COLUMN")
        built(a) == [exc |-> "None", actions |-> a]
        raised(e) == [exc |-> e, actions |-> <<>>]
    IN IF Contains(up, "DROP COLUMN")
       THEN IF m_drop.ok THEN built(<<DropColumn(m_drop.group)>>)
            ELSE raised("AttributeError")
       ELSE IF startswith(up, "ADD COLUMN")
       THEN IF Len(pieces) < 3 \/ Len(tokens) < 2 THEN raised("IndexError")
            ELSE built(<<AddColumn(ColumnDef(tokens[1], tokens[2],
                                             ~Contains(up, "NOT NULL"), FALSE))>>)
       ELSE IF Contains(up, "SET NOT NULL")
       THEN IF m_col.ok THEN built(<<SetNotNull(m_col.group)>>)
            ELSE raised("AttributeError")
       ELSE built(<<>>)

\* The loop over the action clauses: the actions built, up to the first raise.
RECURSIVE alter_actions(_, _)
alter_actions(action_parts, actions) ==
    IF Len(action_parts) = 0 THEN [exc |-> "None", actions |-> actions]
    ELSE LET a == alter_action(Head(action_parts))
         IN IF a.exc # "None" THEN a
            ELSE alter_actions(Tail(action_parts), actions \o a.actions)

build_alter_table_ast(statement) ==
    LET m_table == re_search_kw(statement, "ALTER", "TABLE")
        rest == strip(Drop(statement, m_table.end - 1))
        action_parts == StripEach(split(rest, ","))
        built == alter_actions(action_parts, <<>>)
    IN IF ~m_table.ok THEN None
       ELSE IF built.exc # "None" THEN Raise(built.exc)
       ELSE AlterTable(m_table.group, built.actions, statement)

(***************************************************************************)
(* _build_drop_table_ast and _build_ast                                    *)
(***************************************************************************)

build_drop_table_ast(statement) ==
    LET m == re_search_kw(statement, "DROP", "TABLE")
    IN IF ~m.ok THEN Raise("AttributeError")
       ELSE DropTable(m.group, statement)

\* build_ast with an unsupported statement raising instead of being skipped.
build_ast_strict(statement) ==
    LET up == upper(statement)
    IN IF startswith(up, "CREATE TABLE") THEN build_create_table_ast(statement)
       ELSE IF startswith(up, "ALTER TABLE") THEN build_alter_table_ast(statement)
       ELSE IF startswith(up, "DROP TABLE") THEN build_drop_table_ast(statement)
       ELSE Raise("ValueError")

build_ast(statement) ==
    LET up == upper(statement)
    IN IF startswith(up, "CREATE TABLE") THEN build_create_table_ast(statement)
       ELSE IF startswith(up, "ALTER TABLE") THEN build_alter_table_ast(statement)
       ELSE IF startswith(up, "DROP TABLE") THEN build_drop_table_ast(statement)
       ELSE None

(***************************************************************************)
(* The inputs: the scripts a call is given.  Each ends at a statement      *)
(* boundary.                                                               *)
(***************************************************************************)

\* Calls of parse_ddl in one session.
MaxCalls == 3

Scripts ==
    { "CREATE TABLE t (id INT);",
      "CREATE TABLE t (id INT PRIMARY KEY, email VARCHAR(1));",
      "CREATE TABLE u (a INT NOT NULL, PRIMARY KEY (a));",
      "CREATE TABLE u (a INT, b INT, PRIMARY KEY(a, b));",
      "CREATE TABLE CRITICAL (id INT);",
      "CREATE TABLE;\nCREATE TABLE t (id INT);",
      "ALTER TABLE t DROP COLUMN email;",
      "ALTER TABLE t ADD COLUMN age INT NOT NULL;",
      "ALTER TABLE t ADD COLUMN email TEXT;",
      "ALTER TABLE t ADD COLUMN age INT NOT NULL DEFAULT 0, DROP COLUMN id, ALTER COLUMN age SET NOT NULL;",
      "ALTER TABLE t ALTER COLUMN id SET NOT NULL;",
      "ALTER TABLE;\nCREATE TABLE;",
      "ALTER TABLE t DROP COLUMN;",
      "ALTER TABLE t ADD COLUMN x;\nDROP TABLE t;",
      "DROP TABLE t;",
      "DROP TABLE;\nDROP TABLE t;",
      "SELECT 1;",
      "SELECT 1;\ndrop table u; -- gone\n",
      "-- nothing\n/* here */\n",
      "-- no statement\n/* none -- here */\n",
      "SELECT 1 -/* x */- 2;",
      "/* a */ DROP TABLE u; /* b */",
      "/* open; DROP TABLE t;" }

\* A script followed by another.
ScriptPairs == {a \o b : a, b \in Scripts}

\* split_statements and build_ast are functions of their argument alone: each
\* is computed once for every text the calls can meet.
SplitTable == [ddl \in Scripts \cup ScriptPairs |-> split_statements(ddl)]

statements_of(ddl) ==
    IF ddl \in DOMAIN SplitTable THEN SplitTable[ddl] ELSE split_statements(ddl)

StatementTexts ==
    UNION {{SplitTable[ddl][k] : k \in 1..Len(SplitTable[ddl])} : ddl \in Scripts}

BuildTable == [statement \in StatementTexts |-> build_ast(statement)]

node_of(statement) ==
    IF statement \in DOMAIN BuildTable THEN BuildTable[statement] ELSE build_ast(statement)

(***************************************************************************)
(* The analyzer object.  self is the record of its attributes tables,      *)
(* issues and ast, of the exception in flight (exc, "None" if none), and of *)
(* two records of what the running call has done so far: trace, one entry  *)
(* per statement, and atrace, one entry per ALTER TABLE action folded.      *)
(* A dict is a function; neither the code nor its callers read the order   *)
(* of a dict's keys.                                                       *)
(***************************************************************************)

EmptyDict == [k \in {} |-> k]

\* d[k] = v
DictSet(d, k, v) == [x \in DOMAIN d \cup {k} |-> IF x = k THEN v ELSE d[x]]

\* d.pop(k, None)
DictPop(d, k) == [x \in DOMAIN d \ {k} |-> d[x]]

\* The attributes of the analyzer, without the records of the call.
Snap(self) == [tables |-> self.tables, issues |-> self.issues, ast |-> self.ast]

\* DDLAnalyzer.__init__
NewAnalyzer == [tables |-> EmptyDict, issues |-> <<>>, ast |-> <<>>]

\* The columns dict that the loop of _analyze_create fills: for each name,
\* the last definition carrying it.
ColumnsDict(columns) ==
    LET names == {columns[k].name : k \in 1..Len(columns)}
        last(n) == Max({k \in 1..Len(columns) : columns[k].name = n})
    IN [n \in names |-> [type |-> columns[last(n)].col_type,
                         nullable |-> columns[last(n)].nullable]]

\* [c.name for c in columns if c.is_primary_key]
RECURSIVE InlinePk(_)
InlinePk(columns) ==
    IF Len(columns) = 0 THEN <<>>
    ELSE (IF Head(columns).is_primary_key THEN <<Head(columns).name>> ELSE <<>>)
         \o InlinePk(Tail(columns))

\* _analyze_create that updates the entry of a table already in the model:
\* the columns of the prior entry that the new node does not name are kept.
analyze_create_merges(self, node) ==
    LET table == node.table_name
        pk == node.table_primary_key \o InlinePk(node.columns)
        issue == "Table '" \o table \o "' missing PRIMARY KEY"
        new == ColumnsDict(node.columns)
        old == IF table \in DOMAIN self.tables THEN self.tables[table].columns
               ELSE EmptyDict
        merged == [n \in DOMAIN old \cup DOMAIN new |->
                      IF n \in DOMAIN new THEN new[n] ELSE old[n]]
    IN [self EXCEPT
          !.tables = DictSet(@, table, [columns |-> merged, primary_key |-> pk]),
          !.issues = IF Len(pk) = 0 THEN Append(@, issue) ELSE @]

analyze_create(self, node) ==
    LET table == node.table_name
        pk == node.table_primary_key \o InlinePk(node.columns)
        issue == "Table '" \o table \o "' missing PRIMARY KEY"
    IN [self EXCEPT
          !.tables = DictSet(@, table, [columns |-> ColumnsDict(node.columns),
                                        primary_key |-> pk]),
          !.issues = IF Len(pk) = 0 THEN Append(@, issue) ELSE @]

\* The DropColumn branch without the pop.
alter_drop_column_keeps(self, table, act) ==
    LET issue == "Potential data loss: DROP COLUMN '" \o act.column_name
                 \o "' on '" \o table \o "'"
        issued == [self EXCEPT !.issues = Append(@, issue)]
    IN IF table \notin DOMAIN self.tables THEN [issued EXCEPT !.exc = "KeyError"]
       ELSE issued

\* The DropColumn branch of _analyze_alter: the issue, then the pop.
\* self.tables[table] raises KeyError when the table is not in the model.
alter_drop_column(self, table, act) ==
    LET issue == "Potential data loss: DROP COLUMN '" \o act.column_name
                 \o "' on '" \o table \o "'"
        issued == [self EXCEPT !.issues = Append(@, issue)]
    IN IF table \notin DOMAIN self.tables THEN [issued EXCEPT !.exc = "KeyError"]
       ELSE [issued EXCEPT !.tables[table].columns = DictPop(@, act.column_name)]

\* The AddColumn branch with setdefault: a column of the same name is kept.
alter_add_column_setdefault(self, table, act) ==
    LET col == act.column
        issue == "Adding NOT NULL column '" \o col.name
                 \o "' without default on '" \o table \o "'"
    IN IF table \notin DOMAIN self.tables THEN [self EXCEPT !.exc = "KeyError"]
       ELSE [self EXCEPT
               !.tables[table].columns =
                   IF col.name \in DOMAIN @ THEN @
                   ELSE DictSet(@, col.name,
                                [type |-> col.col_type, nullable |-> col.nullable]),
               !.issues = IF ~col.nullable THEN Append(@, issue) ELSE @]

\* The AddColumn branch: the column is stored, then the issue is appended.
alter_add_column(self, table, act) ==
    LET col == act.column
        issue == "Adding NOT NULL column '" \o col.name
                 \o "' without default on '" \o table \o "'"
    IN IF table \notin DOMAIN self.tables THEN [self EXCEPT !.exc = "KeyError"]
       ELSE [self EXCEPT
               !.tables[table].columns =
                   DictSet(@, col.name, [type |-> col.col_type, nullable |-> col.nullable]),
               !.issues = IF ~col.nullable THEN Append(@, issue) ELSE @]

\* The SetNotNull branch that also records the constraint in the model.
alter_set_not_null_updates(self, table, act) ==
    LET issue == "Risky: SET NOT NULL on '" \o table \o "." \o act.column_name \o "'"
        issued == [self EXCEPT !.issues = Append(@, issue)]
    IN IF table \in DOMAIN self.tables
          /\ act.column_name \in DOMAIN self.tables[table].columns
       THEN [issued EXCEPT !.tables[table].columns[act.column_name].nullable = FALSE]
       ELSE issued

\* The SetNotNull branch with an issue already in the list not appended again.
alter_set_not_null_dedup(self, table, act) ==
    LET issue == "Risky: SET NOT NULL on '" \o table \o "." \o act.column_name \o "'"
    IN IF \E k \in 1..Len(self.issues) : self.issues[k] = issue THEN self
       ELSE [self EXCEPT !.issues = Append(@, issue)]

\* The SetNotNull branch: the issue alone.
alter_set_not_null(self, table, act) ==
    LET issue == "Risky: SET NOT NULL on '" \o table \o "." \o act.column_name \o "'"
    IN [self EXCEPT !.issues = Append(@, issue)]

\* One pass of the loop of _analyze_alter.
alter_step(self, table, act) ==
    CASE act.kind = "DropColumn" -> alter_drop_column(self, table, act)
      [] act.kind = "AddColumn" -> alter_add_column(self, table, act)
      [] act.kind = "SetNotNull" -> alter_set_not_null(self, table, act)

\* The loop of _analyze_alter over node.actions, from action ai on; it ends
\* at the first action that raises.
RECURSIVE alter_loop(_, _, _)
alter_loop(self, node, ai) ==
    IF ai > Len(node.actions) THEN self
    ELSE LET after == alter_step(self, node.table_name, node.actions[ai])
             entry == [si |-> Len(self.trace) + 1, ai |-> ai,
                       table |-> node.table_name, act |-> node.actions[ai],
                       pre |-> Snap(self), post |-> Snap(after), exc |-> after.exc]
             next == [after EXCEPT !.atrace = Append(@, entry)]
         IN IF after.exc # "None" THEN next ELSE alter_loop(next, node, ai + 1)

analyze_alter(self, node) == alter_loop(self, node, 1)

\* _analyze_drop without the pop.
analyze_drop_keeps(self, node) ==
    [self EXCEPT !.issues = Append(@, "CRITICAL: DROP TABLE '" \o node.table_name \o "'")]

analyze_drop(self, node) ==
    LET table == node.table_name
        issue == "CRITICAL: DROP TABLE '" \o table \o "'"
    IN [self EXCEPT !.issues = Append(@, issue), !.tables = DictPop(@, table)]

analyze_node(self, node) ==
    CASE node.kind = "CreateTable" -> analyze_create(self, node)
      [] node.kind = "AlterTable" -> analyze_alter(self, node)
      [] node.kind = "DropTable" -> analyze_drop(self, node)

\* sum(1 for i in issues if "CRITICAL" in i)
RECURSIVE CountCritical(_)
CountCritical(issues) ==
    IF Len(issues) = 0 THEN 0
    ELSE (IF Contains(Head(issues), "CRITICAL") THEN 1 ELSE 0) + CountCritical(Tail(issues))

\* A summary that counts the tables created and never the tables dropped.
generate_summary_created(self) ==
    [total_tables |-> Cardinality({self.ast[k].table_name : k \in
                          {i \in 1..Len(self.ast) : self.ast[i].kind = "CreateTable"}}),
     total_issues |-> Len(self.issues),
     critical_issues |-> CountCritical(self.issues)]

generate_summary(self) ==
    [total_tables |-> Cardinality(DOMAIN self.tables),
     total_issues |-> Len(self.issues),
     critical_issues |-> CountCritical(self.issues)]

\* The record of one pass of the loop of parse_ddl: the statement, its node,
\* the attributes before and after.
record_statement(self, statement, node, after) ==
    [after EXCEPT !.trace = Append(@, [si |-> Len(self.trace) + 1,
                                       statement |-> statement, node |-> node,
                                       pre |-> Snap(self), post |-> Snap(after),
                                       exc |-> after.exc])]

\* The body of the loop of parse_ddl once the node is built: skip the
\* statement if there is none; else append the node to self.ast and fold it.
fold_node(self, statement, node) ==
    record_statement(self, statement, node,
        IF node.kind = "Raise" THEN [self EXCEPT !.exc = node.exc]
        ELSE IF node.kind = "None" THEN self
        ELSE analyze_node([self EXCEPT !.ast = Append(@, node)], node))

\* One pass of the loop of parse_ddl.
fold_statement(self, statement) == fold_node(self, statement, node_of(statement))

\* The loop of parse_ddl; an exception ends it.
RECURSIVE fold_statements(_, _)
fold_statements(self, statements) ==
    IF Len(statements) = 0 \/ self.exc # "None" THEN self
    ELSE fold_statements(fold_statement(self, Head(statements)), Tail(statements))

\* parse_ddl with the issue list emptied at the start of every call.
run_parse_ddl_reset(attrs, ddl_script) ==
    fold_statements([tables |-> attrs.tables, issues |-> <<>>, ast |-> attrs.ast,
                     exc |-> "None", trace |-> <<>>, atrace |-> <<>>],
                    statements_of(ddl_script))

\* parse_ddl on the analyzer whose attributes are `attrs`: the analyzer after
\* the call, with the records of the call.
run_parse_ddl(attrs, ddl_script) ==
    fold_statements([tables |-> attrs.tables, issues |-> attrs.issues, ast |-> attrs.ast,
                     exc |-> "None", trace |-> <<>>, atrace |-> <<>>],
                    statements_of(ddl_script))

\* What the call gives its caller: the dict returned, or the exception.
CallResult(self) ==
    IF self.exc # "None" THEN [status |-> "raised", exc |-> self.exc]
    ELSE [status |-> "returned", tables |-> self.tables, issues |-> self.issues,
          summary |-> generate_summary(self), ast |-> self.ast]

(***************************************************************************)
(* The state machine: one analyzer, and the calls of parse_ddl on it.      *)
(***************************************************************************)

VARIABLES
    tables,     \* self.tables: the schema model
    issues,     \* self.issues
    ast,        \* self.ast
    result,     \* what the last call gave its caller
    trace,      \* the last call, statement by statement
    atrace,     \* the last call, ALTER TABLE action by action
    calls       \* the calls so far: script, attributes before, exception

vars == <<tables, issues, ast, result, trace, atrace, calls>>

Attrs == [tables |-> tables, issues |-> issues, ast |-> ast]

Init ==
    /\ tables = NewAnalyzer.tables
    /\ issues = NewAnalyzer.issues
    /\ ast = NewAnalyzer.ast
    /\ result = [status |-> "none"]
    /\ trace = <<>>
    /\ atrace = <<>>
    /\ calls = <<>>

\* The analyzer and the records once the call has ended.
end_call(self, ddl_script) ==
    /\ tables' = self.tables
    /\ issues' = self.issues
    /\ ast' = self.ast
    /\ result' = CallResult(self)
    /\ trace' = self.trace
    /\ atrace' = self.atrace
    /\ calls' = Append(calls, [script |-> ddl_script, pre |-> Attrs, exc |-> self.exc])

parse_ddl(ddl_script) ==
    /\ Len(calls) < MaxCalls
    /\ end_call(run_parse_ddl(Attrs, ddl_script), ddl_script)

Next == \E ddl_script \in Scripts : parse_ddl(ddl_script)

Spec == Init /\ [][Next]_vars

(***************************************************************************)
(* Properties.                                                             *)
(***************************************************************************)

\* a is an initial segment of b.
IsPrefix(a, b) == Len(a) <= Len(b) /\ \A k \in 1..Len(a) : a[k] = b[k]

\* The issue each action kind is documented to raise.
DropColumnIssue(table, col) ==
    "Potential data loss: DROP COLUMN '" \o col \o "' on '" \o table \o "'"

AddColumnIssue(table, col) ==
    "Adding NOT NULL column '" \o col \o "' without default on '" \o table \o "'"

SetNotNullIssue(table, col) == "Risky: SET NOT NULL on '" \o table \o "." \o col \o "'"

DropTableIssue(table) == "CRITICAL: DROP TABLE '" \o table \o "'"

MissingPkIssue(table) == "Table '" \o table \o "' missing PRIMARY KEY"

\* The issues an action raises on a table that exists.
ActionIssues(table, act) ==
    CASE act.kind = "DropColumn" -> <<DropColumnIssue(table, act.column_name)>>
      [] act.kind = "AddColumn" ->
            IF act.column.nullable THEN <<>> ELSE <<AddColumnIssue(table, act.column.name)>>
      [] act.kind = "SetNotNull" -> <<SetNotNullIssue(table, act.column_name)>>

\* The script of the last call, and its statements.
LastCall == calls[Len(calls)]

LastStatements == IF Len(calls) = 0 THEN <<>> ELSE statements_of(LastCall.script)

----------------------------------------------------------------------------
\* C1: folding an ALTER TABLE action on a table that is not in the schema
\* model never raises; the action's issue is appended as for an existing
\* table and the schema model is unchanged.
C1_AlterUnknownTableIsTolerated ==
    \A k \in 1..Len(atrace) :
        LET e == atrace[k]
        IN e.table \notin DOMAIN e.pre.tables =>
              /\ e.exc = "None"
              /\ e.post.issues = e.pre.issues \o ActionIssues(e.table, e.act)
              /\ e.post.tables = e.pre.tables

----------------------------------------------------------------------------
\* The recognized statements of the inputs whose mandatory identifier is
\* missing: no table name, no column name after DROP COLUMN, no type after
\* the name of an added column.
MissingIdentifier ==
    {"CREATE TABLE", "ALTER TABLE", "DROP TABLE",
     "ALTER TABLE t DROP COLUMN", "ALTER TABLE t ADD COLUMN x"}

\* C2: parse_ddl returns a result for every script and never raises; a
\* recognized statement whose mandatory identifier is missing gives no node
\* and no issue and changes nothing, and every statement of the script is
\* folded.
C2_ParseDdlNeverRaises ==
    /\ result.status # "raised"
    /\ Len(trace) = Len(LastStatements)
    /\ \A k \in 1..Len(trace) :
          trace[k].statement \in MissingIdentifier =>
              /\ trace[k].node = None
              /\ trace[k].post = trace[k].pre

----------------------------------------------------------------------------
\* The script ends at a statement boundary: it leaves no block comment open,
\* and text put after it starts a statement of its own.
EndsAtBoundary(ddl) ==
    /\ ~Contains(ddl_clean(ddl), "/*")
    /\ split_statements(ddl \o "x") = Append(split_statements(ddl), "x")

EndsAtBoundaryTable == [ddl \in Scripts |-> EndsAtBoundary(ddl)]

----------------------------------------------------------------------------
\* C4: folding DROP TABLE t, whether or not t is in the schema model, appends
\* exactly the issue "CRITICAL: DROP TABLE 't'", raises the summary's
\* critical_issues by one, leaves t out of the model and every other table
\* as it was.
C4_DropTable ==
    \A k \in 1..Len(trace) :
        LET e == trace[k]
            t == e.node.table_name
        IN e.node.kind = "DropTable" =>
              /\ e.exc = "None"
              /\ e.post.issues = Append(e.pre.issues, DropTableIssue(t))
              /\ generate_summary(e.post).critical_issues
                    = generate_summary(e.pre).critical_issues + 1
              /\ t \notin DOMAIN e.post.tables
              /\ DOMAIN e.post.tables = DOMAIN e.pre.tables \ {t}
              /\ \A u \in DOMAIN e.post.tables : e.post.tables[u] = e.pre.tables[u]

\* A DROP TABLE of a table that is in the model, beside another table.
C4_Witness ==
    \E k \in 1..Len(trace) :
        /\ trace[k].node.kind = "DropTable"
        /\ trace[k].node.table_name \in DOMAIN trace[k].pre.tables
        /\ DOMAIN trace[k].post.tables # {}

----------------------------------------------------------------------------
\* The statement declares a primary key: in the inputs every occurrence of
\* PRIMARY KEY is an inline marker of a column or a table-level clause that
\* names at least one column.
DeclaresPrimaryKey(statement) == Contains(upper(statement), "PRIMARY KEY")

DeclaresPrimaryKeyTable == [st \in StatementTexts |-> DeclaresPrimaryKey(st)]

\* C5: folding a CreateTable node for t appends "Table 't' missing PRIMARY
\* KEY" exactly once if and only if the computed primary key is empty; when
\* a column carries an inline PRIMARY KEY marker or a table-level PRIMARY KEY
\* clause names a column, no issue is appended.
C5_MissingPrimaryKeyIssue ==
    \A k \in 1..Len(trace) :
        LET e == trace[k]
            pk == e.node.table_primary_key \o InlinePk(e.node.columns)
        IN e.node.kind = "CreateTable" =>
              /\ Len(pk) = 0 =>
                    e.post.issues = Append(e.pre.issues, MissingPkIssue(e.node.table_name))
              /\ Len(pk) > 0 => e.post.issues = e.pre.issues
              /\ DeclaresPrimaryKeyTable[e.statement] => e.post.issues = e.pre.issues

----------------------------------------------------------------------------
\* C6: folding DropColumn c on a table t of the model appends exactly the
\* issue "Potential data loss: DROP COLUMN 'c' on 't'"; afterwards c is no
\* column of t, whether or not it was one, and every other column of t and
\* every other table is as it was.
C6_DropColumn ==
    \A k \in 1..Len(atrace) :
        LET e == atrace[k]
            t == e.table
            c == e.act.column_name
        IN (e.act.kind = "DropColumn" /\ t \in DOMAIN e.pre.tables) =>
              /\ e.exc = "None"
              /\ e.post.issues = Append(e.pre.issues, DropColumnIssue(t, c))
              /\ DOMAIN e.post.tables = DOMAIN e.pre.tables
              /\ DOMAIN e.post.tables[t].columns = DOMAIN e.pre.tables[t].columns \ {c}
              /\ \A d \in DOMAIN e.post.tables[t].columns :
                    e.post.tables[t].columns[d] = e.pre.tables[t].columns[d]
              /\ \A u \in DOMAIN e.pre.tables \ {t} : e.post.tables[u] = e.pre.tables[u]

\* A DROP COLUMN of a column the table holds beside another column.
C6_Witness ==
    \E k \in 1..Len(atrace) :
        /\ atrace[k].act.kind = "DropColumn"
        /\ atrace[k].table \in DOMAIN atrace[k].pre.tables
        /\ atrace[k].act.column_name \in DOMAIN atrace[k].pre.tables[atrace[k].table].columns
        /\ DOMAIN atrace[k].post.tables[atrace[k].table].columns # {}

----------------------------------------------------------------------------
\* What the ADD COLUMN clauses of the inputs declare, read off their text:
\* "ADD COLUMN age INT NOT NULL", "ADD COLUMN age INT NOT NULL DEFAULT 0" and
\* "ADD COLUMN email TEXT".
Declared ==
    [age |-> [type |-> "INT", nullable |-> FALSE],
     email |-> [type |-> "TEXT", nullable |-> TRUE]]

\* C7: folding AddColumn c on a table t of the model stores c in t's columns
\* with the parsed type and nullability, replacing a column of the same name,
\* and appends "Adding NOT NULL column 'c' without default on 't'" if and
\* only if c is non-nullable, whether or not the clause declares a DEFAULT.
C7_AddColumn ==
    \A k \in 1..Len(atrace) :
        LET e == atrace[k]
            t == e.table
            c == e.act.column.name
        IN (e.act.kind = "AddColumn" /\ t \in DOMAIN e.pre.tables) =>
              /\ e.exc = "None"
              /\ c \in DOMAIN Declared
              /\ DOMAIN e.post.tables = DOMAIN e.pre.tables
              /\ DOMAIN e.post.tables[t].columns = DOMAIN e.pre.tables[t].columns \cup {c}
              /\ e.post.tables[t].columns[c] = Declared[c]
              /\ \A d \in DOMAIN e.pre.tables[t].columns \ {c} :
                    e.post.tables[t].columns[d] = e.pre.tables[t].columns[d]
              /\ e.post.tables[t].primary_key = e.pre.tables[t].primary_key
              /\ \A u \in DOMAIN e.pre.tables \ {t} : e.post.tables[u] = e.pre.tables[u]
              /\ e.post.issues =
                    IF Declared[c].nullable THEN e.pre.issues
                    ELSE Append(e.pre.issues, AddColumnIssue(t, c))

\* An ADD COLUMN with NOT NULL and a DEFAULT, on a table of the model: the
\* issue is raised all the same.
C7_Witness ==
    \E k \in 1..Len(atrace) :
        /\ atrace[k].act.kind = "AddColumn"
        /\ atrace[k].table \in DOMAIN atrace[k].pre.tables
        /\ Contains(trace[atrace[k].si].statement, "DEFAULT")
        /\ Len(atrace[k].post.issues) = Len(atrace[k].pre.issues) + 1

----------------------------------------------------------------------------
\* The number of issues whose text contains "CRITICAL".
CriticalIssues == Cardinality({k \in 1..Len(issues) : Contains(issues[k], "CRITICAL")})

\* C8: the summary a call returns is a function of the state at return:
\* total_tables is the number of tables of the schema model, total_issues
\* the length of the issue list, critical_issues the number of issues whose
\* text contains "CRITICAL".
C8_SummaryOfState ==
    result.status = "returned" =>
        /\ result.summary.total_tables = Cardinality(DOMAIN tables)
        /\ result.summary.total_issues = Len(issues)
        /\ result.summary.critical_issues = CriticalIssues

\* A summary returned after a table was created, dropped and created again.
C8_Witness ==
    /\ result.status = "returned"
    /\ Len(calls) = 3
    /\ \E k \in 1..Len(ast) : ast[k].kind = "DropTable" /\ ast[k].table_name = "t"
    /\ ast[Len(ast)].kind = "CreateTable" /\ ast[Len(ast)].table_name = "t"
    /\ result.summary.total_tables = 1
    /\ result.summary.critical_issues = 1

----------------------------------------------------------------------------
\* C9: the issue list is append-only and ordered by detection.  The list
\* before each fold step is an initial segment of the list after it; the
\* steps of a call follow the statements of its script in order, and within
\* one ALTER TABLE the actions in order, each starting from the list the
\* step before it left; an issue already in the list is appended again.
C9_IssuesAppendOnly ==
    /\ Len(calls) > 0 =>
          /\ IsPrefix(LastCall.pre.issues, issues)
          /\ Len(trace) <= Len(LastStatements)
          /\ issues = IF Len(trace) = 0 THEN LastCall.pre.issues
                      ELSE trace[Len(trace)].post.issues
    /\ \A k \in 1..Len(trace) :
          /\ trace[k].si = k
          /\ trace[k].statement = LastStatements[k]
          /\ trace[k].pre = IF k = 1 THEN LastCall.pre ELSE trace[k - 1].post
          /\ IsPrefix(trace[k].pre.issues, trace[k].post.issues)
          /\ trace[k].node.kind = "DropTable" =>
                Len(trace[k].post.issues) = Len(trace[k].pre.issues) + 1
    /\ \A j \in 1..Len(atrace) :
          LET e == atrace[j]
              first == j = 1 \/ atrace[j - 1].si # e.si
              last == j = Len(atrace) \/ atrace[j + 1].si # e.si
          IN /\ e.si \in 1..Len(trace)
             /\ j > 1 => atrace[j - 1].si <= e.si
             /\ e.ai = IF first THEN 1 ELSE atrace[j - 1].ai + 1
             /\ e.act = trace[e.si].node.actions[e.ai]
             /\ e.pre.issues = IF first THEN trace[e.si].pre.issues
                               ELSE atrace[j - 1].post.issues
             /\ last => e.post.issues = trace[e.si].post.issues
             /\ IsPrefix(e.pre.issues, e.post.issues)
             /\ e.act.kind \in {"DropColumn", "SetNotNull"} =>
                   Len(e.post.issues) = Len(e.pre.issues) + 1

\* The ALTER TABLE with three risky actions, folded a second time: its three
\* issues end the list in the order of the actions, and each is in the list
\* twice.
C9_Witness ==
    /\ Len(atrace) = 3
    /\ Len(issues) >= 6
    /\ SubSeq(issues, Len(issues) - 2, Len(issues))
          = <<AddColumnIssue("t", "age"), DropColumnIssue("t", "id"),
              SetNotNullIssue("t", "age")>>
    /\ \E i \in 1..(Len(issues) - 3) : issues[i] = SetNotNullIssue("t", "age")

----------------------------------------------------------------------------
\* The statement starts, in any case of letters, with one of the three
\* keyword pairs.
Recognized(statement) ==
    \/ startswith(upper(statement), "CREATE TABLE")
    \/ startswith(upper(statement), "ALTER TABLE")
    \/ startswith(upper(statement), "DROP TABLE")

RecognizedTable == [st \in StatementTexts |-> Recognized(st)]

\* C10: a statement that does not start with CREATE TABLE, ALTER TABLE or
\* DROP TABLE gives no node and no issue and does not raise: the schema
\* model, the issue list and the AST list are unchanged, and the statements
\* after it are folded.
C10_UnrecognizedSkipped ==
    \A k \in 1..Len(trace) :
        ~RecognizedTable[trace[k].statement] =>
            /\ trace[k].node = None
            /\ trace[k].exc = "None"
            /\ trace[k].post = trace[k].pre
            /\ k < Len(LastStatements) => Len(trace) > k

\* An unrecognized statement followed by a DROP TABLE that is folded.
C10_Witness ==
    \E k \in 1..(Len(trace) - 1) :
        /\ ~RecognizedTable[trace[k].statement]
        /\ trace[k + 1].node.kind = "DropTable"
        /\ Len(trace[k + 1].post.issues) = Len(trace[k].pre.issues) + 1

----------------------------------------------------------------------------
\* The nodes built by the passes recorded in tr, in statement order.
RECURSIVE NodesBuilt(_)
NodesBuilt(tr) ==
    IF Len(tr) = 0 THEN <<>>
    ELSE (IF Head(tr).node.kind \in {"CreateTable", "AlterTable", "DropTable"}
          THEN <<Head(tr).node>> ELSE <<>>) \o NodesBuilt(Tail(tr))

\* C11: the ast field returned by a call of parse_ddl is the sequence of the
\* nodes built during that call only, in statement order; nodes built by
\* earlier calls on the same analyzer are not part of it, and its length is
\* the number of statements of the call's script that gave a node.
C11_AstOfThisCall ==
    result.status = "returned" =>
        /\ result.ast = NodesBuilt(trace)
        /\ Len(result.ast) = Len(NodesBuilt(trace))
        /\ Len(result.ast) <= Len(LastStatements)

----------------------------------------------------------------------------
\* The script holds nothing but whitespace, line comments (from -- to the end
\* of the line) and terminated block comments, read from left to right.
RECURSIVE OnlyComments(_)
OnlyComments(s) ==
    LET a == SkipClass(s, 1, Whitespace)
    IN IF a > Len(s) THEN TRUE
       ELSE IF At(s, a, "--")
            THEN LET n == FindFrom(s, "\n", a)
                 IN n = 0 \/ OnlyComments(Drop(s, n))
       ELSE IF At(s, a, "/*")
            THEN LET c == FindFrom(s, "*/", a + 2)
                 IN c # 0 /\ OnlyComments(Drop(s, c + 1))
       ELSE FALSE

OnlyCommentsTable == [ddl \in Scripts |-> OnlyComments(ddl)]

\* C12: a script that holds no statement, only whitespace, line comments and
\* block comments (a block comment may contain --), splits into the empty
\* sequence, and parse_ddl on it changes neither the schema model nor the
\* issue list.
C12_CommentOnlyScript ==
    (Len(calls) > 0 /\ OnlyCommentsTable[LastCall.script]) =>
        /\ LastStatements = <<>>
        /\ Len(trace) = 0
        /\ tables = LastCall.pre.tables
        /\ issues = LastCall.pre.issues

----------------------------------------------------------------------------
\* The column names of the table-level clause PRIMARY KEY (c1, ..., cn) of a
\* CREATE TABLE statement, in declared order: the clause is the first
\* PRIMARY KEY that an opening parenthesis follows, and it runs to the next
\* closing parenthesis.  Empty when the statement has no such clause.
TableLevelPk(statement) ==
    LET u == upper(statement)
        open(k) == SkipClass(statement, k + Len("PRIMARY KEY"), Whitespace)
        I == {k \in 1..Len(u) : At(u, k, "PRIMARY KEY") /\ At(u, open(k), "(")}
    IN IF I = {} THEN <<>>
       ELSE LET o == open(Min(I))
                c == FindFrom(statement, ")", o)
            IN StripEach(split(SubSeq(statement, o + 1, c - 1), ","))

TableLevelPkTable == [st \in StatementTexts |-> TableLevelPk(st)]

\* C13: for a CREATE TABLE whose body has a table-level clause
\* PRIMARY KEY(c1, ..., cn), n >= 1, composite keys included, the stored
\* primary key is c1, ..., cn in declared order followed by the names of
\* the columns marked inline, duplicates kept; the clause contributes no
\* column, and no "missing PRIMARY KEY" issue is appended.
C13_TableLevelPrimaryKey ==
    \A k \in 1..Len(trace) :
        LET e == trace[k]
            t == e.node.table_name
            declared == TableLevelPkTable[e.statement]
        IN (e.node.kind = "CreateTable" /\ Len(declared) >= 1) =>
              /\ e.post.tables[t].primary_key = declared \o InlinePk(e.node.columns)
              /\ \A c \in DOMAIN e.post.tables[t].columns :
                    ~Contains(c, "(") /\ ~Contains(c, ")") /\ upper(c) # "PRIMARY"
              /\ e.post.issues = e.pre.issues

----------------------------------------------------------------------------
\* C14: folding a CreateTable node for a table t already in the schema model
\* replaces the whole entry: afterwards the columns of t are exactly the
\* columns of the new node, each with the type and nullability of its last
\* definition, and no column of the prior entry survives; the primary key
\* is the newly computed one; the only issue that can be appended is the
\* missing PRIMARY KEY issue, and every other table is unchanged.
C14_CreateReplaces ==
    \A k \in 1..Len(trace) :
        LET e == trace[k]
            t == e.node.table_name
            cols == e.node.columns
            last(n) == Max({i \in 1..Len(cols) : cols[i].name = n})
        IN (e.node.kind = "CreateTable" /\ t \in DOMAIN e.pre.tables) =>
              /\ e.exc = "None"
              /\ DOMAIN e.post.tables[t].columns = {cols[i].name : i \in 1..Len(cols)}
              /\ \A n \in DOMAIN e.post.tables[t].columns :
                    e.post.tables[t].columns[n]
                       = [type |-> cols[last(n)].col_type, nullable |-> cols[last(n)].nullable]
              /\ e.post.tables[t].primary_key = e.node.table_primary_key \o InlinePk(cols)
              /\ e.post.issues \in {e.pre.issues, Append(e.pre.issues, MissingPkIssue(t))}
              /\ DOMAIN e.post.tables = DOMAIN e.pre.tables
              /\ \A u \in DOMAIN e.pre.tables \ {t} : e.post.tables[u] = e.pre.tables[u]

\* A table t created, given the column email by ALTER TABLE, and created
\* again without it: email is gone.
C14_Witness ==
    /\ \E i \in 1..Len(ast) : ast[i].kind = "AlterTable"
    /\ \E k \in 1..Len(trace) :
          /\ trace[k].node.kind = "CreateTable"
          /\ trace[k].node.table_name \in DOMAIN trace[k].pre.tables
          /\ "email" \in DOMAIN trace[k].pre.tables[trace[k].node.table_name].columns
          /\ "email" \notin DOMAIN trace[k].post.tables[trace[k].node.table_name].columns

----------------------------------------------------------------------------
\* C15: folding SetNotNull of the column c that the clause ALTER COLUMN c SET
\* NOT NULL names, on table t, appends exactly the issue "Risky: SET NOT NULL
\* on 't.c'", does not raise and leaves the whole schema model unchanged,
\* the stored nullable flag of t.c included, whether or not t or c exists.
C15_SetNotNull ==
    \A k \in 1..Len(atrace) :
        LET e == atrace[k]
            c == e.act.column_name
        IN e.act.kind = "SetNotNull" =>
              /\ e.exc = "None"
              /\ Contains(trace[e.si].statement, "ALTER COLUMN " \o c \o " SET NOT NULL")
              /\ e.post.issues = Append(e.pre.issues, SetNotNullIssue(e.table, c))
              /\ e.post.tables = e.pre.tables

\* SET NOT NULL folded on a nullable column of the model, which stays
\* nullable, after SET NOT NULL was folded on a table the model did not hold.
C15_Witness ==
    /\ Len(calls) = 3
    /\ SetNotNullIssue("t", "id") \in {calls[2].pre.issues[i] : i \in 1..Len(calls[2].pre.issues)}
    /\ "t" \notin DOMAIN calls[1].pre.tables
    /\ calls[1].script = "ALTER TABLE t ALTER COLUMN id SET NOT NULL;"
    /\ \E k \in 1..Len(atrace) :
          /\ atrace[k].act.kind = "SetNotNull"
          /\ atrace[k].table \in DOMAIN atrace[k].pre.tables
          /\ atrace[k].act.column_name \in DOMAIN atrace[k].pre.tables[atrace[k].table].columns
          /\ atrace[k].pre.tables[atrace[k].table].columns[atrace[k].act.column_name].nullable
          /\ atrace[k].post.tables[atrace[k].table].columns[atrace[k].act.column_name].nullable
          /\ Len(atrace[k].post.issues) = Len(atrace[k].pre.issues) + 1

----------------------------------------------------------------------------
\* The text of s up to its first whitespace.
FirstToken(s) == Take(s, SkipToken(s, 1) - 1)

\* The statements keep the order of the source: their first tokens occur in
\* the script one after the other, from position `from` on.
RECURSIVE InSourceOrder(_, _, _)
InSourceOrder(ddl, statements, from) ==
    IF Len(statements) = 0 THEN TRUE
    ELSE LET p == FindFrom(ddl, FirstToken(Head(statements)), from)
         IN p # 0 /\ InSourceOrder(ddl, Tail(statements), p + 1)

\* The statement holds a complete block comment: an opener and, after it, a
\* closer.
HoldsBlockComment(statement) ==
    \E i \in 1..Len(statement) :
        At(statement, i, "/*") /\ FindFrom(statement, "*/", i + 2) # 0

\* What the splitter returns for the script is free of comments.
CommentFree(ddl) ==
    LET sts == statements_of(ddl)
    IN /\ \A k \in 1..Len(sts) :
             /\ ~Contains(sts[k], "--")
             /\ ~HoldsBlockComment(sts[k])
             /\ sts[k] # ""
             /\ ~Contains(sts[k], ";")
       /\ InSourceOrder(ddl, sts, 1)

CommentFreeTable == [ddl \in Scripts |-> CommentFree(ddl)]

\* C16: no statement returned by the splitter contains comment text: no
\* returned statement contains the line-comment marker -- or a complete
\* block comment, none is empty or contains a semicolon, and the statements
\* are in source order.
C16_NoCommentInStatements ==
    /\ Len(calls) > 0 => CommentFreeTable[LastCall.script]
    /\ \A k \in 1..Len(trace) :
          ~Contains(trace[k].statement, "--") /\ ~HoldsBlockComment(trace[k].statement)

----------------------------------------------------------------------------
\* Block comments removed as documented: each opener with its text up to
\* the nearest closer after it, and an opener without a closer with all the
\* text that remains.
RECURSIVE WithoutBlockComments(_)
WithoutBlockComments(s) ==
    LET i == Find(s, "/*")
        c == FindFrom(s, "*/", i + 2)
    IN IF i = 0 THEN s
       ELSE IF c = 0 THEN Take(s, i - 1)
       ELSE Take(s, i - 1) \o WithoutBlockComments(Drop(s, c + 1))

\* The statements of the script when block comments are removed so.
DocumentedStatements(ddl) ==
    StripNonEmpty(split(WithoutBlockComments(sub_line_comments(ddl)), ";"))

DocumentedStatementsTable == [ddl \in Scripts |-> DocumentedStatements(ddl)]

\* C17: in the splitter a block comment opener with no closer after it
\* consumes all the text that remains in the script, so that no statement
\* text after it is returned, and a terminated block comment ends at the
\* nearest closer after its opener.
C17_UnterminatedBlockComment ==
    Len(calls) > 0 =>
        /\ LastStatements = DocumentedStatementsTable[LastCall.script]
        /\ \A k \in 1..Len(trace) : ~Contains(trace[k].statement, "/*")

----------------------------------------------------------------------------
\* C18: the classification of issues by the prefix CRITICAL agrees with the
\* summary: after any sequence of statements critical_issues is the number
\* of issues that begin with "CRITICAL", which is the number of DropTable
\* nodes folded on the analyzer; no issue of a CREATE TABLE or an ALTER
\* TABLE, whatever the table or column name, is counted as critical.
C18_CriticalIsPrefix ==
    result.status = "returned" =>
        LET prefixed == {k \in 1..Len(issues) : startswith(issues[k], "CRITICAL")}
            dropped == {i \in 1..Len(ast) : ast[i].kind = "DropTable"}
        IN /\ result.summary.critical_issues = Cardinality(prefixed)
           /\ Cardinality(prefixed) = Cardinality(dropped)
           /\ \A k \in 1..Len(issues) :
                 Contains(issues[k], "CRITICAL") => k \in prefixed

----------------------------------------------------------------------------
\* C19: in every reachable state every column name listed in the primary
\* key of a table of the schema model is a key of that table's columns.
C19_PrimaryKeyColumnsExist ==
    \A t \in DOMAIN tables :
        \A k \in 1..Len(tables[t].primary_key) :
            tables[t].primary_key[k] \in DOMAIN tables[t].columns

====
